---- MODULE Spec2Model ----
(***************************************************************************)
(* Clique configurations over 1..n (src/main.py).                          *)
(*                                                                         *)
(* A CliqueConfiguration is a record with one field, cliques: the list of  *)
(* cliques in the order the code stores them, each clique a set of         *)
(* integers.  generate_cliques is modelled as a machine with an explicit   *)
(* call stack: one step per test at the head of the function, one step per *)
(* iteration of its for loop and one step for its tail (remove subsets,    *)
(* remove duplicates, keep the valid ones, return).                        *)
(***************************************************************************)
EXTENDS Integers, Sequences, FiniteSets

\* ------------------------------------------------------------------ bounds

\* The largest argument the caller passes to generate_cliques.
MaxN == 7

\* How many arguments below 1 the caller may pass (0, -1, ...).
NonPositive == 2

\* The depth of the call stack at which the interpreter refuses another call.
MaxDepth == 9

\* The largest n for which the generator's result is compared with the
\* exhaustive enumeration of all collections of ranges.
MaxBrute == 5

\* Cliques handed to the constructor draw their members from 1..MaxElem.
MaxElem == 2

\* The longest clique list of each of the two configurations compared.
MaxCliquesEq == 2

\* The longest clique list of a configuration handed to remove_subsets.
MaxCliquesRed == 3

VARIABLES
    pc,            \* where the program is
    arg,           \* the argument of the caller's call to generate_cliques
    stack,         \* the argument n of every active generate_cliques frame
    prev_configs,  \* the top frame's prev_configs
    idx,           \* the position of the top frame's for loop in prev_configs
    new_configs,   \* the top frame's new_configs
    ret,           \* the list the last finished frame returned
    cfg,           \* a configuration built from arbitrary cliques
    other,         \* a second one, compared with cfg
    out            \* results of the operations applied to cfg and other

vars == <<pc, arg, stack, prev_configs, idx, new_configs, ret, cfg, other, out>>

\* ------------------------------------------------------ CliqueConfiguration

\* __init__: an independent copy of every clique, in the given order (a copy
\* of a set is the same set of integers).
CliqueConfiguration(cliques) == [cliques |-> SubSeq(cliques, 1, Len(cliques))]

\* frozenset(frozenset(c) for c in self.cliques)
CliqueSet(self) == {self.cliques[i] : i \in 1..Len(self.cliques)}

\* ---- the interpreter's 64-bit hash arithmetic
\* A 64-bit word is the tuple of its eight bytes, least significant first:
\* the arithmetic of the frozenset hash is modulo 2^64.

\* The word of an integer 0 <= x < 2^31.
WordOf(x) ==
    <<x % 256, (x \div 256) % 256, (x \div 65536) % 256, (x \div 16777216) % 256,
      0, 0, 0, 0>>

\* The low 24 bits of a word.
Low24(w) == w[1] + 256 * w[2] + 65536 * w[3]

\* The table of ^ on 4-bit values: a ^ b is XorTable[a + 1][b + 1].
XorTable ==
    <<<< 0,  1,  2,  3,  4,  5,  6,  7,  8,  9, 10, 11, 12, 13, 14, 15>>,
      << 1,  0,  3,  2,  5,  4,  7,  6,  9,  8, 11, 10, 13, 12, 15, 14>>,
      << 2,  3,  0,  1,  6,  7,  4,  5, 10, 11,  8,  9, 14, 15, 12, 13>>,
      << 3,  2,  1,  0,  7,  6,  5,  4, 11, 10,  9,  8, 15, 14, 13, 12>>,
      << 4,  5,  6,  7,  0,  1,  2,  3, 12, 13, 14, 15,  8,  9, 10, 11>>,
      << 5,  4,  7,  6,  1,  0,  3,  2, 13, 12, 15, 14,  9,  8, 11, 10>>,
      << 6,  7,  4,  5,  2,  3,  0,  1, 14, 15, 12, 13, 10, 11,  8,  9>>,
      << 7,  6,  5,  4,  3,  2,  1,  0, 15, 14, 13, 12, 11, 10,  9,  8>>,
      << 8,  9, 10, 11, 12, 13, 14, 15,  0,  1,  2,  3,  4,  5,  6,  7>>,
      << 9,  8, 11, 10, 13, 12, 15, 14,  1,  0,  3,  2,  5,  4,  7,  6>>,
      <<10, 11,  8,  9, 14, 15, 12, 13,  2,  3,  0,  1,  6,  7,  4,  5>>,
      <<11, 10,  9,  8, 15, 14, 13, 12,  3,  2,  1,  0,  7,  6,  5,  4>>,
      <<12, 13, 14, 15,  8,  9, 10, 11,  4,  5,  6,  7,  0,  1,  2,  3>>,
      <<13, 12, 15, 14,  9,  8, 11, 10,  5,  4,  7,  6,  1,  0,  3,  2>>,
      <<14, 15, 12, 13, 10, 11,  8,  9,  6,  7,  4,  5,  2,  3,  0,  1>>,
      <<15, 14, 13, 12, 11, 10,  9,  8,  7,  6,  5,  4,  3,  2,  1,  0>>>>

\* a ^ b on bytes: the low and the high four bits
XorByte(a, b) ==
    XorTable[(a % 16) + 1][(b % 16) + 1]
        + 16 * XorTable[(a \div 16) + 1][(b \div 16) + 1]

\* a ^ b
Xor(a, b) ==
    <<XorByte(a[1], b[1]), XorByte(a[2], b[2]), XorByte(a[3], b[3]),
      XorByte(a[4], b[4]), XorByte(a[5], b[5]), XorByte(a[6], b[6]),
      XorByte(a[7], b[7]), XorByte(a[8], b[8])>>

\* h << 16
Shl16(h) == <<0, 0, h[1], h[2], h[3], h[4], h[5], h[6]>>

\* Byte i of h >> (8 * q + r), where p = 2^r and 0 <= r < 8.
ShrByte(h, i, q, p) ==
    LET lo == IF i + q <= 8 THEN h[i + q] ELSE 0
        hi == IF i + q + 1 <= 8 THEN h[i + q + 1] ELSE 0
    IN  (lo \div p) + (hi % p) * (256 \div p)

\* h >> (8 * q + r), where p = 2^r and 0 <= r < 8.
Shr(h, q, p) ==
    <<ShrByte(h, 1, q, p), ShrByte(h, 2, q, p), ShrByte(h, 3, q, p),
      ShrByte(h, 4, q, p), ShrByte(h, 5, q, p), ShrByte(h, 6, q, p),
      ShrByte(h, 7, q, p), ShrByte(h, 8, q, p)>>

\* a * b modulo 2^64: column k of the long multiplication, with the carry of
\* column k - 1, is tk.
Mul(a, b) ==
    LET t1 == a[1] * b[1]
        t2 == (a[1] * b[2] + a[2] * b[1]) + t1 \div 256
        t3 == ((a[1] * b[3] + a[2] * b[2]) + a[3] * b[1]) + t2 \div 256
        t4 == ((a[1] * b[4] + a[2] * b[3]) + (a[3] * b[2] + a[4] * b[1])) + t3 \div 256
        t5 == (((a[1] * b[5] + a[2] * b[4]) + a[3] * b[3]) + (a[4] * b[2] + a[5] * b[1])) + t4 \div 256
        t6 == (((a[1] * b[6] + a[2] * b[5]) + a[3] * b[4]) + ((a[4] * b[3] + a[5] * b[2]) + a[6] * b[1])) + t5 \div 256
        t7 == (((a[1] * b[7] + a[2] * b[6]) + (a[3] * b[5] + a[4] * b[4])) + ((a[5] * b[3] + a[6] * b[2]) + a[7] * b[1])) + t6 \div 256
        t8 == (((a[1] * b[8] + a[2] * b[7]) + (a[3] * b[6] + a[4] * b[5])) + ((a[5] * b[4] + a[6] * b[3]) + (a[7] * b[2] + a[8] * b[1]))) + t7 \div 256
    IN  <<t1 % 256, t2 % 256, t3 % 256, t4 % 256, t5 % 256, t6 % 256, t7 % 256, t8 % 256>>

\* a + b modulo 2^64
Add(a, b) ==
    LET s1 == a[1] + b[1]
        s2 == a[2] + b[2] + s1 \div 256
        s3 == a[3] + b[3] + s2 \div 256
        s4 == a[4] + b[4] + s3 \div 256
        s5 == a[5] + b[5] + s4 \div 256
        s6 == a[6] + b[6] + s5 \div 256
        s7 == a[7] + b[7] + s6 \div 256
        s8 == a[8] + b[8] + s7 \div 256
    IN  <<s1 % 256, s2 % 256, s3 % 256, s4 % 256, s5 % 256, s6 % 256, s7 % 256, s8 % 256>>

\* _shuffle_bits(h) = ((h ^ 89869747) ^ (h << 16)) * 3644798167
ShuffleBits(h) ==
    Mul(Xor(Xor(h, <<179, 77, 91, 5, 0, 0, 0, 0>>), Shl16(h)),
        <<215, 52, 63, 217, 0, 0, 0, 0>>)

\* The end of frozenset_hash, from the XOR of the shuffled hashes of the
\* entries and the number of entries:
\*   hash ^= (size + 1) * 1927868237
\*   hash ^= (hash >> 11) ^ (hash >> 25)
\*   hash = hash * 69069 + 907133923
\*   if hash == -1: hash = 590923713
Disperse(acc, size) ==
    LET h1 == Xor(acc, Mul(WordOf(size + 1), <<77, 239, 232, 114, 0, 0, 0, 0>>))
        h2 == Xor(h1, Xor(Shr(h1, 1, 8), Shr(h1, 3, 2)))
        h3 == Add(Mul(h2, <<205, 13, 1, 0, 0, 0, 0, 0>>), <<227, 195, 17, 54, 0, 0, 0, 0>>)
    IN  IF h3 = <<255, 255, 255, 255, 255, 255, 255, 255>>
        THEN <<193, 199, 56, 35, 0, 0, 0, 0>>
        ELSE h3

\* The XOR of the shuffled hashes of the members of c within lo..hi; the
\* hash of an integer 0 <= x < 2^61 - 1 is x.
RECURSIVE XorOfMembers(_, _, _)
XorOfMembers(c, lo, hi) ==
    IF lo > hi THEN WordOf(0)
    ELSE IF lo = hi THEN (IF lo \in c THEN ShuffleBits(WordOf(lo)) ELSE WordOf(0))
    ELSE LET mid == (lo + hi) \div 2
         IN  Xor(XorOfMembers(c, lo, mid), XorOfMembers(c, mid + 1, hi))

\* The least and the greatest member of a non-empty set of integers.
Smallest(c) == CHOOSE x \in c : \A y \in c : x <= y
Largest(c)  == CHOOSE x \in c : \A y \in c : y <= x

\* hash(frozenset(c)) for a clique c
HashOfClique(c) ==
    Disperse(IF c = {} THEN WordOf(0) ELSE XorOfMembers(c, Smallest(c), Largest(c)),
             Cardinality(c))

\* The XOR of the shuffled hashes of the distinct cliques among
\* cliques[lo], ..., cliques[hi]: the frozenset holds a clique once, however
\* often it is in the list.
RECURSIVE XorOfCliques(_, _, _)
XorOfCliques(cliques, lo, hi) ==
    IF lo > hi THEN WordOf(0)
    ELSE IF lo = hi
    THEN (IF \E j \in 1..(lo - 1) : cliques[j] = cliques[lo]
          THEN WordOf(0)
          ELSE ShuffleBits(HashOfClique(cliques[lo])))
    ELSE LET mid == (lo + hi) \div 2
         IN  Xor(XorOfCliques(cliques, lo, mid), XorOfCliques(cliques, mid + 1, hi))

\* __hash__: hash(frozenset(frozenset(c) for c in self.cliques))
Hash(self) ==
    Disperse(XorOfCliques(self.cliques, 1, Len(self.cliques)),
             Cardinality(CliqueSet(self)))

\* The lists compared as they are.
Eq_AsLists(self, other_) == self.cliques = other_.cliques

\* __eq__ (other is always a CliqueConfiguration here)
Eq(self, other_) == CliqueSet(self) = CliqueSet(other_)

\* get_number_count: for each number, in how many cliques of the list it is.
get_number_count(self) ==
    [num \in UNION CliqueSet(self) |->
        Cardinality({i \in 1..Len(self.cliques) : num \in self.cliques[i]})]

\* is_valid
is_valid(self) ==
    LET counts == get_number_count(self)
    IN  \A num \in DOMAIN counts : 1 <= counts[num] /\ counts[num] <= 2

\* The entries lo..hi of a list that pass a test, in order.
RECURSIVE Kept(_, _, _, _)
Kept(list, keep, lo, hi) ==
    IF lo > hi THEN <<>>
    ELSE IF lo = hi THEN (IF keep[lo] THEN <<list[lo]>> ELSE <<>>)
    ELSE LET mid == (lo + hi) \div 2
         IN  Kept(list, keep, lo, mid) \o Kept(list, keep, mid + 1, hi)

\* Nothing is removed.
remove_subsets_Nothing(self) == CliqueConfiguration(self.cliques)

\* Each clique is compared with its successor in the list only.
remove_subsets_NextOnly(self) ==
    LET c    == self.cliques
        keep == [i \in 1..Len(c) |->
                   ~(i < Len(c) /\ c[i] \subseteq c[i + 1] /\ c[i] # c[i + 1])]
    IN  CliqueConfiguration(Kept(c, keep, 1, Len(c)))

\* remove_subsets: the cliques that are a proper subset of no clique at
\* another position, in their order.
remove_subsets(self) ==
    LET c    == self.cliques
        keep == [i \in 1..Len(c) |->
                   ~\E j \in 1..Len(c) :
                       i # j /\ c[i] \subseteq c[j] /\ c[i] # c[j]]
    IN  CliqueConfiguration(Kept(c, keep, 1, Len(c)))

\* ---------------------------------------------------------- classifier

\* The first position holding n, or 0.
RECURSIVE FirstWith(_, _, _)
FirstWith(cliques, n, k) ==
    IF k > Len(cliques) THEN 0
    ELSE IF n \in cliques[k] THEN k
    ELSE FirstWith(cliques, n, k + 1)

\* The membership test is made on n - 1.
get_ending_clique_size_OffByOne(config, n) ==
    LET k == FirstWith(config.cliques, n - 1, 1)
    IN  IF k = 0 THEN 0 ELSE Cardinality(config.cliques[k])

\* get_ending_clique_size
get_ending_clique_size(config, n) ==
    LET k == FirstWith(config.cliques, n, 1)
    IN  IF k = 0 THEN 0 ELSE Cardinality(config.cliques[k])

\* ----------------------------------------------------------- generator

\* The contiguous range {i, ..., n} (set(range(i, n + 1))).
RangeClique(i, n) == i..n

\* The range stops before n.
Candidates_WithoutN(config, n) ==
    <<CliqueConfiguration(config.cliques \o <<{n}>>)>> \o
    [k \in 1..(n - 1) |->
        CliqueConfiguration(config.cliques \o <<RangeClique(n - k, n - 1)>>)]

\* The new clique holds i and n only.
Candidates_EndsOnly(config, n) ==
    <<CliqueConfiguration(config.cliques \o <<{n}>>)>> \o
    [k \in 1..(n - 1) |->
        CliqueConfiguration(config.cliques \o <<{n - k, n}>>)]

\* The loop over i stops at 2.
Candidates_NotFromOne(config, n) ==
    <<CliqueConfiguration(config.cliques \o <<{n}>>)>> \o
    [k \in 1..(n - 2) |->
        CliqueConfiguration(config.cliques \o <<RangeClique(n - k, n)>>)]

\* One iteration of the for loop over prev_configs: the candidate with {n}
\* appended, then the candidates with {i..n} appended for i = n-1 down to 1.
Candidates(config, n) ==
    <<CliqueConfiguration(config.cliques \o <<{n}>>)>> \o
    [k \in 1..(n - 1) |->
        CliqueConfiguration(config.cliques \o <<RangeClique(n - k, n)>>)]

\* Every entry is kept.
unique_configs_All(confs) == confs

\* ---- the interpreter's set, as list(set(new_configs)) uses it
\* A set object is its hash table, a tuple with one entry per slot (slot i
\* at position i + 1): 0 for an unused slot, else the position in the list
\* of the key the slot holds; and fill, the number of slots in use.  No key
\* is ever removed here, so used = fill and there are no dummy entries.

\* hash(list[lo]), ..., hash(list[hi])
RECURSIVE Hashes(_, _, _)
Hashes(list, lo, hi) ==
    IF lo > hi THEN <<>>
    ELSE IF lo = hi THEN <<Hash(list[lo])>>
    ELSE LET mid == (lo + hi) \div 2
         IN  Hashes(list, lo, mid) \o Hashes(list, mid + 1, hi)

\* The least member of a non-empty set of numbers.
Least(js) == CHOOSE j \in js : \A m \in js : j <= m

\* perturb >>= PERTURB_SHIFT; i = (i * 5 + 1 + perturb) & mask
\* (the mask is below 2^24)
NextProbe(i, shifted, mask) == (i * 5 + 1 + Low24(shifted)) % (mask + 1)

\* The probe loop of set_add_entry for key k, at slot i: the unused slot it
\* stops at, or -1 when it stops at an entry with the same hash that is
\* equal to the key.  LINEAR_PROBES = 9 slots after i are looked at when
\* they all lie within the table.
RECURSIVE FindSlot(_, _, _, _, _, _)
FindSlot(table, list, hashes, k, i, perturb) ==
    LET mask   == Len(table) - 1
        probes == IF i + 9 <= mask THEN 9 ELSE 0
        stops  == {j \in 0..probes :
                     \/ table[i + j + 1] = 0
                     \/ /\ hashes[table[i + j + 1]] = hashes[k]
                        /\ Eq(list[table[i + j + 1]], list[k])}
        shifted == Shr(perturb, 0, 32)
    IN  IF stops # {}
        THEN (IF table[i + Least(stops) + 1] = 0 THEN i + Least(stops) ELSE -1)
        ELSE FindSlot(table, list, hashes, k, NextProbe(i, shifted, mask), shifted)

\* The probe loop of set_insert_clean for a key with hash h: the unused slot
\* it stops at.
RECURSIVE FindUnused(_, _, _)
FindUnused(table, i, perturb) ==
    LET mask   == Len(table) - 1
        probes == IF i + 9 <= mask THEN 9 ELSE 0
        stops  == {j \in 0..probes : table[i + j + 1] = 0}
        shifted == Shr(perturb, 0, 32)
    IN  IF stops # {}
        THEN i + Least(stops)
        ELSE FindUnused(table, NextProbe(i, shifted, mask), shifted)

\* set_insert_clean
set_insert_clean(table, hashes, k) ==
    LET slot == FindUnused(table, Low24(hashes[k]) % Len(table), hashes[k])
    IN  [table EXCEPT ![slot + 1] = k]

\* The entries at positions lo..hi of the old table, inserted in that order
\* (with the same kind of test as in Added below).
RECURSIVE Reinserted(_, _, _, _, _)
Reinserted(table, old, hashes, lo, hi) ==
    IF lo > hi THEN table
    ELSE IF lo = hi
    THEN (IF old[lo] = 0 THEN table ELSE set_insert_clean(table, hashes, old[lo]))
    ELSE LET mid  == (lo + hi) \div 2
             left == Reinserted(table, old, hashes, lo, mid)
         IN  IF Len(left) > 0 THEN Reinserted(left, old, hashes, mid + 1, hi) ELSE left

\* newsize = PySet_MINSIZE; while (newsize <= minused) newsize <<= 1
RECURSIVE NewSize(_, _)
NewSize(newsize, minused) ==
    IF newsize <= minused THEN NewSize(newsize * 2, minused) ELSE newsize

\* A table of unused slots.
RECURSIVE Unused(_)
Unused(size) ==
    IF size = 1 THEN <<0>> ELSE Unused(size \div 2) \o Unused(size \div 2)

\* set_table_resize
set_table_resize(so, hashes, minused) ==
    [table |-> Reinserted(Unused(NewSize(8, minused)), so.table, hashes, 1, Len(so.table)),
     fill  |-> so.fill]

\* set_add_entry, for the key at position k of the list
set_add_entry(so, list, hashes, k) ==
    LET mask == Len(so.table) - 1
        slot == FindSlot(so.table, list, hashes, k,
                         Low24(hashes[k]) % (mask + 1), hashes[k])
        added == [table |-> [so.table EXCEPT ![slot + 1] = k], fill |-> so.fill + 1]
    IN  IF slot = -1 THEN so
        ELSE IF added.fill * 5 < mask * 3 THEN added
        ELSE set_table_resize(added, hashes,
                              IF added.fill > 50000 THEN added.fill * 2
                                                    ELSE added.fill * 4)

\* The keys at positions lo..hi of the list, added in that order.  (The tests
\* on the left part are always true: they make its evaluation end before
\* that of the right part begins.)
RECURSIVE Added(_, _, _, _, _)
Added(so, list, hashes, lo, hi) ==
    IF lo > hi THEN so
    ELSE IF lo = hi THEN set_add_entry(so, list, hashes, lo)
    ELSE LET mid  == (lo + hi) \div 2
             left == Added(so, list, hashes, lo, mid)
         IN  IF left.fill >= 0 THEN Added(left, list, hashes, mid + 1, hi) ELSE left

\* The keys of the slots lo..hi in use, in slot order.
RECURSIVE Keys(_, _, _, _)
Keys(table, list, lo, hi) ==
    IF lo > hi THEN <<>>
    ELSE IF lo = hi THEN (IF table[lo] = 0 THEN <<>> ELSE <<list[table[lo]]>>)
    ELSE LET mid == (lo + hi) \div 2
         IN  Keys(table, list, lo, mid) \o Keys(table, list, mid + 1, hi)

\* list(set(new_configs)): the entries are added to an empty set one by
\* one, an entry equal to one already there being dropped, and the list is
\* read off the set's table in slot order.
unique_configs(confs) ==
    LET hashes == Hashes(confs, 1, Len(confs))
        so     == Added([table |-> Unused(8), fill |-> 0], confs, hashes, 1, Len(confs))
    IN  Keys(so.table, confs, 1, Len(so.table))

\* Every entry is kept.
valid_configs_All(confs) == confs

\* [conf for conf in unique_configs if conf.is_valid()]
valid_configs(confs) ==
    Kept(confs, [k \in 1..Len(confs) |-> is_valid(confs[k])], 1, Len(confs))

\* [conf.remove_subsets() for conf in new_configs], entries lo..hi
RECURSIVE Reduced(_, _, _)
Reduced(confs, lo, hi) ==
    IF lo > hi THEN <<>>
    ELSE IF lo = hi THEN <<remove_subsets(confs[lo])>>
    ELSE LET mid == (lo + hi) \div 2
         IN  Reduced(confs, lo, mid) \o Reduced(confs, mid + 1, hi)

Top == stack[Len(stack)]

\* A frame returns value, its new_configs being last: to the caller's frame,
\* waiting at its recursive call, or to the caller of generate_cliques.
\* After the outermost return prev_configs, idx and new_configs show the
\* locals of the frame that returned.
Return(value, last) ==
    /\ ret' = value
    /\ stack' = SubSeq(stack, 1, Len(stack) - 1)
    /\ IF Len(stack) = 1
       THEN /\ pc' = "done"
            /\ new_configs' = last
            /\ UNCHANGED <<prev_configs, idx>>
       ELSE /\ pc' = "loop"
            /\ prev_configs' = value
            /\ idx' = 1
            /\ new_configs' = <<>>

\* The caller calls generate_cliques(n).
Call(n) ==
    /\ pc = "idle"
    /\ pc' = "enter"
    /\ arg' = n
    /\ stack' = <<n>>
    /\ UNCHANGED <<prev_configs, idx, new_configs, ret, cfg, other, out>>

\* if n == 1: return [CliqueConfiguration([{1}])]
BaseOne ==
    /\ pc = "enter"
    /\ Top = 1
    /\ Return(<<CliqueConfiguration(<<{1}>>)>>, new_configs)
    /\ UNCHANGED <<arg, cfg, other, out>>

\* if n == 2: return [[{1}, {2}], [{1, 2}]]
BaseTwo ==
    /\ pc = "enter"
    /\ Top # 1
    /\ Top = 2
    /\ Return(<<CliqueConfiguration(<<{1}, {2}>>), CliqueConfiguration(<<{1, 2}>>)>>,
              new_configs)
    /\ UNCHANGED <<arg, cfg, other, out>>

\* prev_configs = generate_cliques(n - 1): a new frame.
Recurse ==
    /\ pc = "enter"
    /\ Top # 1
    /\ Top # 2
    /\ Len(stack) < MaxDepth
    /\ stack' = Append(stack, Top - 1)
    /\ UNCHANGED <<pc, arg, prev_configs, idx, new_configs, ret, cfg, other, out>>

\* The same call with the stack full: the interpreter raises RecursionError,
\* which no frame catches.
StackOverflow ==
    /\ pc = "enter"
    /\ Top # 1
    /\ Top # 2
    /\ Len(stack) >= MaxDepth
    /\ pc' = "error"
    /\ stack' = <<>>
    /\ UNCHANGED <<arg, prev_configs, idx, new_configs, ret, cfg, other, out>>

\* One iteration of for config in prev_configs.
Extend ==
    /\ pc = "loop"
    /\ idx <= Len(prev_configs)
    /\ new_configs' = new_configs \o Candidates(prev_configs[idx], Top)
    /\ idx' = idx + 1
    /\ UNCHANGED <<pc, arg, stack, prev_configs, ret, cfg, other, out>>

\* The loop is over: new_configs becomes the list of the reduced
\* configurations; it is deduplicated, filtered and what is left returned.
Finish ==
    /\ pc = "loop"
    /\ idx > Len(prev_configs)
    /\ LET reduced == Reduced(new_configs, 1, Len(new_configs))
       IN  Return(valid_configs(unique_configs(reduced)), reduced)
    /\ UNCHANGED <<arg, cfg, other, out>>

\* main, lines 192-197: the number of returned configurations per ending
\* clique size (a dict: only the sizes that occur are keys).
size_counts(configs, n) ==
    LET size(k) == get_ending_clique_size(configs[k], n)
    IN  [sz \in {size(k) : k \in 1..Len(configs)} |->
            Cardinality({k \in 1..Len(configs) : size(k) = sz})]

\* The caller classifies the configurations it got back.
Breakdown ==
    /\ pc = "done"
    /\ pc' = "counted"
    /\ out' = size_counts(ret, arg)
    /\ UNCHANGED <<arg, stack, prev_configs, idx, new_configs, ret, cfg, other>>

InputN == (1 - NonPositive)..MaxN

Empty == CliqueConfiguration(<<>>)

Init ==
    /\ pc = "idle"
    /\ arg = 0
    /\ stack = <<>>
    /\ prev_configs = <<>>
    /\ idx = 0
    /\ new_configs = <<>>
    /\ ret = <<>>
    /\ cfg = Empty
    /\ other = Empty
    /\ out = <<>>

Next ==
    \/ \E n \in InputN : Call(n)
    \/ BaseOne
    \/ BaseTwo
    \/ Recurse
    \/ StackOverflow
    \/ Extend
    \/ Finish
    \/ Breakdown

Spec == Init /\ [][Next]_vars

\* ------------------------------------- configurations of arbitrary cliques

\* The clique lists of at most m cliques over 1..MaxElem.
InputLists(m) == UNION {[1..k -> SUBSET (1..MaxElem)] : k \in 0..m}

\* The configurations the constructor builds from them.
Built(m) == {CliqueConfiguration(cliques) : cliques \in InputLists(m)}

Idle ==
    /\ arg = 0
    /\ stack = <<>>
    /\ prev_configs = <<>>
    /\ idx = 0
    /\ new_configs = <<>>
    /\ ret = <<>>
    /\ out = <<>>

\* Two configurations, built independently.
InitEq ==
    /\ pc = "built"
    /\ cfg \in Built(MaxCliquesEq)
    /\ other \in Built(MaxCliquesEq)
    /\ Idle

\* cfg == other, hash(cfg), hash(other)
Compare ==
    /\ pc = "built"
    /\ pc' = "compared"
    /\ out' = [eq |-> Eq(cfg, other), hash_self |-> Hash(cfg), hash_other |-> Hash(other)]
    /\ UNCHANGED <<arg, stack, prev_configs, idx, new_configs, ret, cfg, other>>

NextEq == Compare

SpecEq == InitEq /\ [][NextEq]_vars

\* One configuration.
InitRed ==
    /\ pc = "built"
    /\ cfg \in Built(MaxCliquesRed)
    /\ other = Empty
    /\ Idle

\* remove_subsets, applied to cfg and then to what it returned: out lists
\* the configurations returned so far.
Reduce ==
    /\ pc = "built"
    /\ Len(out) < 2
    /\ out' = Append(out, remove_subsets(IF out = <<>> THEN cfg ELSE out[Len(out)]))
    /\ UNCHANGED <<pc, arg, stack, prev_configs, idx, new_configs, ret, cfg, other>>

NextRed == Reduce

SpecRed == InitRed /\ [][NextRed]_vars

\* ------------------------------------------------------------- properties

ProperSubset(a, b) == a \subseteq b /\ a # b

\* In how many cliques of the list x is.
Membership(cliques, x) == Cardinality({i \in 1..Len(cliques) : x \in cliques[i]})

\* The contiguous ranges within 1..n.
Ranges(n) == {a..b : a \in 1..n, b \in 1..n} \ {{}}

\* Every collection of contiguous ranges within 1..n in which every integer
\* of 1..n lies in one or two ranges and no range is a proper subset of
\* another.
AllRangeCollections(n) ==
    {C \in SUBSET Ranges(n) :
        /\ \A x \in 1..n : Cardinality({r \in C : x \in r}) \in {1, 2}
        /\ \A r \in C : \A q \in C : ~ProperSubset(r, q)}

\* a(1) = 1, a(n+1) = 3 a(n) - 1
RECURSIVE Expected(_)
Expected(n) == IF n <= 1 THEN 1 ELSE 3 * Expected(n - 1) - 1

\* Every ordering of a list.
RECURSIVE Orderings(_, _)
Orderings(list, at) ==
    IF at = {} THEN {<<>>}
    ELSE UNION {{<<list[i]>> \o rest : rest \in Orderings(list, at \ {i})} : i \in at}

\* C1: every configuration generate_cliques(n) returns, n >= 1, has exactly
\* the integers 1..n in its cliques, each of them in one or two cliques, and
\* no clique that is a proper subset of another clique of it.
C1_GeneratedAreValid ==
    pc = "done" =>
        \A k \in 1..Len(ret) :
            LET c == ret[k].cliques
            IN  /\ UNION {c[i] : i \in 1..Len(c)} = 1..arg
                /\ \A x \in 1..arg : Membership(c, x) \in {1, 2}
                /\ \A i \in 1..Len(c) : \A j \in 1..Len(c) : ~ProperSubset(c[i], c[j])

\* A call with n >= 3 has returned: subset removal dropped cliques of a
\* parent, and an integer is in two cliques of a returned configuration.
C1_Witness ==
    /\ pc = "done"
    /\ arg >= 3
    /\ \E k \in 1..Len(ret) : \E x \in 1..arg : Membership(ret[k].cliques, x) = 2
    /\ \E k \in 1..Len(new_configs) :
           Len(new_configs[k].cliques)
               < Len(prev_configs[(k - 1) \div arg + 1].cliques) + 1

\* C2: the configurations generate_cliques(n) returns, as sets of cliques,
\* are exactly the collections of contiguous ranges within 1..n that cover
\* every integer once or twice and hold no range that is a proper subset of
\* another; for n = 1, 2, 3 they are the listed ones.
C2_ExactlyTheRangeCollections ==
    pc = "done" =>
        LET got == {CliqueSet(ret[k]) : k \in 1..Len(ret)}
        IN  /\ arg <= MaxBrute => got = AllRangeCollections(arg)
            /\ arg = 1 => got = {{{1}}}
            /\ arg = 2 => got = {{{1}, {2}}, {{1, 2}}}
            /\ arg = 3 => got = {{{1}, {2}, {3}}, {{1, 2}, {3}}, {{1}, {2, 3}},
                                 {{1, 2, 3}}, {{1, 2}, {2, 3}}}

\* A call has returned the collection {1..n-1}, {2..n}, of two ranges that
\* overlap in more than one integer.
C2_Witness ==
    /\ pc = "done"
    /\ arg >= 4
    /\ arg <= MaxBrute
    /\ \E k \in 1..Len(ret) : CliqueSet(ret[k]) = {1..(arg - 1), 2..arg}

\* C3: called with n < 1, generate_cliques makes no recursive call.
C3_NoRecursionBelowOne ==
    (pc = "enter" /\ arg < 1) => Len(stack) = 1

\* C4: generate_cliques returns 1, 2 and 5 configurations for n = 1, 2, 3
\* and 3 a(n) - 1 configurations for n + 1, a(n) being the number for n.
C4_Counts ==
    pc = "done" =>
        /\ Len(ret) = Expected(arg)
        /\ arg = 1 => Len(ret) = 1
        /\ arg = 2 => Len(ret) = 2
        /\ arg = 3 => Len(ret) = 5
        /\ arg >= 3 => Len(ret) = 3 * Len(prev_configs) - 1

\* A call with n >= 4 has returned, its frame holding the result for n - 1.
C4_Witness ==
    /\ pc = "done"
    /\ arg >= 4
    /\ Len(prev_configs) = Expected(arg - 1)
    /\ Len(new_configs) = arg * Len(prev_configs)

\* C5: no two entries of the list generate_cliques returns have the same
\* set of cliques.
C5_NoDuplicates ==
    pc = "done" =>
        \A j \in 1..Len(ret) : \A k \in 1..Len(ret) :
            j # k =>
                {ret[j].cliques[i] : i \in 1..Len(ret[j].cliques)}
                    # {ret[k].cliques[i] : i \in 1..Len(ret[k].cliques)}

\* A call has returned in which two candidates, of different parents, were
\* the same configuration after subset removal (new_configs holds the
\* reduced candidates).
C5_Witness ==
    /\ pc = "done"
    /\ \E j \in 1..Len(new_configs) : \E k \in 1..Len(new_configs) :
           /\ (j - 1) \div arg # (k - 1) \div arg
           /\ new_configs[j].cliques = new_configs[k].cliques

\* The two lists hold the same cliques, each clique taken as a set of integers.
SameCliques(a, b) ==
    /\ \A i \in 1..Len(a) : \E j \in 1..Len(b) :
           \A x \in 1..MaxElem : (x \in a[i]) <=> (x \in b[j])
    /\ \A j \in 1..Len(b) : \E i \in 1..Len(a) :
           \A x \in 1..MaxElem : (x \in a[i]) <=> (x \in b[j])

\* C6: two configurations are equal exactly when their lists hold the same
\* cliques, in whatever order and however often repeated, and equal
\* configurations have equal hashes.
C6_EqualIffSameCliques ==
    pc = "compared" =>
        /\ out.eq <=> SameCliques(cfg.cliques, other.cliques)
        /\ out.eq => out.hash_self = out.hash_other

\* Two equal configurations whose lists differ in order, and in length.
C6_Witness ==
    /\ pc = "compared"
    /\ out.eq
    /\ out.hash_self = out.hash_other
    /\ Len(cfg.cliques) = 2
    /\ cfg.cliques[1] # cfg.cliques[2]
    /\ \/ other.cliques = <<cfg.cliques[2], cfg.cliques[1]>>
       \/ Len(other.cliques) # 2

\* C7: remove_subsets applied to what remove_subsets returned returns the
\* same cliques.
C7_RemoveSubsetsIdempotent ==
    (pc = "built" /\ Len(out) = 2) => out[2].cliques = out[1].cliques

\* remove_subsets was applied twice to a configuration with a clique inside
\* a clique inside a clique.
C7_Witness ==
    /\ pc = "built"
    /\ Len(out) = 2
    /\ Len(out[1].cliques) < Len(cfg.cliques)
    /\ \E i \in 1..Len(cfg.cliques) : \E j \in 1..Len(cfg.cliques) :
       \E k \in 1..Len(cfg.cliques) :
           ProperSubset(cfg.cliques[i], cfg.cliques[j])
               /\ ProperSubset(cfg.cliques[j], cfg.cliques[k])

\* C8: for every configuration generate_cliques(n) returns,
\* get_ending_clique_size gives a size within 1..n, the size of a clique of
\* the configuration that holds n; 0 is never a key of the breakdown.
C8_EndingSizeOfACliqueWithN ==
    pc = "counted" =>
        /\ \A k \in 1..Len(ret) :
               LET s == get_ending_clique_size(ret[k], arg)
                   c == ret[k].cliques
               IN  /\ s \in 1..arg
                   /\ \E i \in 1..Len(c) : arg \in c[i] /\ Cardinality(c[i]) = s
        /\ DOMAIN out \subseteq 1..arg

\* The breakdown was made of a result with several ending sizes.
C8_Witness ==
    /\ pc = "counted"
    /\ arg >= 3
    /\ DOMAIN out = 1..arg

\* C9 as stated: an integer k in two cliques of a returned configuration is
\* the largest of one and the smallest of the other.
C9_OverlapIsOneInteger ==
    pc = "done" =>
        \A m \in 1..Len(ret) :
            LET c == ret[m].cliques
            IN  \A i \in 1..Len(c) : \A j \in 1..Len(c) : \A k \in 1..arg :
                    (i # j /\ k \in c[i] /\ k \in c[j]) =>
                        \/ Largest(c[i]) = k /\ Smallest(c[j]) = k
                        \/ Largest(c[j]) = k /\ Smallest(c[i]) = k

\* C9, amended: two cliques of a returned configuration that share an
\* integer are contiguous ranges a..b and c..d with a < c <= b < d, and what
\* they share is c..b: the end of the one and the start of the other.
C9_OverlapIsEndAndStart ==
    pc = "done" =>
        \A m \in 1..Len(ret) :
            LET c == ret[m].cliques
            IN  \A i \in 1..Len(c) : \A j \in 1..Len(c) :
                    (i # j /\ c[i] \cap c[j] # {} /\ Smallest(c[i]) <= Smallest(c[j])) =>
                        /\ c[i] = Smallest(c[i])..Largest(c[i])
                        /\ c[j] = Smallest(c[j])..Largest(c[j])
                        /\ Smallest(c[i]) < Smallest(c[j])
                        /\ Largest(c[i]) < Largest(c[j])
                        /\ c[i] \cap c[j] = Smallest(c[j])..Largest(c[i])

\* A returned configuration with two cliques that share two integers.
C9_Witness ==
    /\ pc = "done"
    /\ \E m \in 1..Len(ret) :
           LET c == ret[m].cliques
           IN  \E i \in 1..Len(c) : \E j \in 1..Len(c) :
                   i # j /\ Cardinality(c[i] \cap c[j]) >= 2

\* C10: in every configuration generate_cliques(n) returns, n is in exactly
\* one clique, and get_ending_clique_size gives the same size for every
\* ordering of the cliques.
C10_NInOneClique ==
    pc = "counted" =>
        \A k \in 1..Len(ret) :
            LET c == ret[k].cliques
            IN  /\ Membership(c, arg) = 1
                /\ \A o \in Orderings(c, 1..Len(c)) :
                       get_ending_clique_size([cliques |-> o], arg)
                           = get_ending_clique_size(ret[k], arg)

\* The breakdown was made of a result with a configuration whose cliques
\* have different sizes, the one holding n not the first.
C10_Witness ==
    /\ pc = "counted"
    /\ \E k \in 1..Len(ret) :
           LET c == ret[k].cliques
           IN  /\ Len(c) >= 3
               /\ arg \notin c[1]
               /\ Cardinality(c[1]) # get_ending_clique_size(ret[k], arg)

====
